---- MODULE Spec2Model ----
(***************************************************************************)
(* A model of src/generate_pages.py: the static-site generator that turns  *)
(* README.md and the "day NN" directories into docs/index.html and         *)
(* docs/day-N.html.                                                        *)
(*                                                                         *)
(* Text is a sequence of one-character strings.  A rendered page is a      *)
(* record of the parts of the template that depend on the inputs (the      *)
(* f-string holes); the fixed markup around the holes is left out.         *)
(***************************************************************************)
EXTENDS Integers, Sequences, FiniteSets, TLC

VARIABLES
    readme,            \* README.md: [exists, readable, content]
    tree,              \* the day directories: directory name -> entries in rglob order
    pc,                \* where main() stands
    day_descriptions,  \* main's day_descriptions
    day_num,           \* main's loop variable
    docs,              \* docs/: whether it exists, and file name -> what was last written
    written,           \* the names of the files written so far, in order
    call,              \* the function called on its own, with its arguments
    ret                \* what that call returned

vars == <<readme, tree, pc, day_descriptions, day_num, docs, written, call, ret>>

None == [none |-> TRUE]

(***************************************************************************)
(* Text helpers: str.strip, str.split, int, str.replace, format.           *)
(***************************************************************************)

\* The whitespace of the model's alphabet (str.strip() and the regex \s).
Whitespace == {" ", "\n", "\t"}

IsSpace(c) == c \in Whitespace

DigitVal == [c \in {"0", "1", "2", "3", "4", "5", "6", "7", "8", "9"} |->
               CASE c = "0" -> 0 [] c = "1" -> 1 [] c = "2" -> 2 [] c = "3" -> 3
                 [] c = "4" -> 4 [] c = "5" -> 5 [] c = "6" -> 6 [] c = "7" -> 7
                 [] c = "8" -> 8 [] c = "9" -> 9]

IsDigit(c) == c \in DOMAIN DigitVal

DigitChar == <<"0", "1", "2", "3", "4", "5", "6", "7", "8", "9">>

\* The first index >= i of s that holds no whitespace (Len(s)+1 when none).
RECURSIVE SkipSpace(_, _)
SkipSpace(s, i) ==
    IF i <= Len(s) /\ IsSpace(s[i]) THEN SkipSpace(s, i + 1) ELSE i

\* The first index >= i of s that holds no digit (Len(s)+1 when none).
RECURSIVE SkipDigits(_, _)
SkipDigits(s, i) ==
    IF i <= Len(s) /\ IsDigit(s[i]) THEN SkipDigits(s, i + 1) ELSE i

\* The last index <= i of s that holds no whitespace (0 when none).
RECURSIVE LastNonSpace(_, _)
LastNonSpace(s, i) ==
    IF i >= 1 /\ IsSpace(s[i]) THEN LastNonSpace(s, i - 1) ELSE i

\* str.strip(): leading and trailing whitespace removed.
strip(s) == SubSeq(s, SkipSpace(s, 1), LastNonSpace(s, Len(s)))

\* int(digits): the decimal value, leading zeros allowed.
RECURSIVE int(_)
int(ds) ==
    IF ds = <<>> THEN 0
    ELSE 10 * int(SubSeq(ds, 1, Len(ds) - 1)) + DigitVal[ds[Len(ds)]]

\* The greatest element of a non-empty set of integers.
Max(S) == CHOOSE k \in S : \A j \in S : j <= k

\* The literal w stands in s at index i.
HasAt(s, i, w) ==
    /\ i >= 1
    /\ i + Len(w) - 1 <= Len(s)
    /\ \A k \in 1..Len(w) : s[i + k - 1] = w[k]

(***************************************************************************)
(* parse_readme.  The pattern is                                           *)
(*   (?:^|\n)(#{1,2})\s+Day\s+(\d+)(?:\s*:\s*|\s*\n)(.*?)                  *)
(*                                 (?=(?:\n#{1,2}\s+Day\s+\d+|\Z))         *)
(* under re.DOTALL | re.MULTILINE, matched the way Python's backtracking   *)
(* matcher matches it: alternatives left to right, greedy runs longest     *)
(* first, the lazy group shortest first.                                   *)
(***************************************************************************)

NoMatch == [ok |-> FALSE]

\* How a call ends: it returns a value, or raises.
Returned(v) == [raised |-> FALSE, value |-> v]

Raised == [raised |-> TRUE, value |-> <<>>]

Hashes(k) == [i \in 1..k |-> "#"]

DayWord == <<"D", "a", "y">>

\* `(#{1,2})\s+Day\s+(\d+)` at index h, with exactly k '#'.  A greedy run that gives
\* characters back is followed by a character of the run's own class, which is not
\* what the pattern wants next ('D' after \s+, a digit after \s+, and after \d+ a
\* separator or nothing), so only the longest run can match.
header_with(s, h, k) ==
    LET a == h + k
        b == SkipSpace(s, a)
        c == b + Len(DayWord)
        d == SkipSpace(s, c)
        e == SkipDigits(s, d)
    IN  IF /\ HasAt(s, h, Hashes(k))
           /\ b > a
           /\ HasAt(s, b, DayWord)
           /\ d > c
           /\ e > d
        THEN [ok |-> TRUE, group2 |-> SubSeq(s, d, e - 1), end |-> e]
        ELSE NoMatch

\* `#{1,2}` is greedy: two '#' first, then one.
header(s, h) ==
    IF header_with(s, h, 2).ok THEN header_with(s, h, 2) ELSE header_with(s, h, 1)

\* `(?:\s*:\s*|\s*\n)` at index i.  First alternative: the whitespace run, ':', and
\* the whitespace run after it (greedy, and nothing after it can fail, so it is never
\* given back).  Second alternative: \s* gives characters back until a '\n' follows,
\* so the '\n' matched is the last one of the whitespace run.
separator(s, i) ==
    LET w  == SkipSpace(s, i)
        nl == {k \in i..(w - 1) : s[k] = "\n"}
    IN  IF w <= Len(s) /\ s[w] = ":"
        THEN [ok |-> TRUE, end |-> SkipSpace(s, w + 1)]
        ELSE IF nl # {}
        THEN [ok |-> TRUE, end |-> Max(nl) + 1]
        ELSE NoMatch

\* `(?=(?:\n#{1,2}\s+Day\s+\d+|\Z))` at index e.
lookahead(s, e) ==
    \/ e <= Len(s) /\ s[e] = "\n" /\ header(s, e + 1).ok
    \/ e = Len(s) + 1

\* `(.*?)` from index b: the shortest text after which the lookahead holds.
RECURSIVE body_end(_, _)
body_end(s, b) == IF lookahead(s, b) THEN b ELSE body_end(s, b + 1)

\* The pattern after its `(?:^|\n)`, with the header at index h.
section(s, h) ==
    LET hd == header(s, h)
    IN  IF ~hd.ok THEN NoMatch
        ELSE LET sep == separator(s, hd.end)
             IN  IF ~sep.ok THEN NoMatch
                 ELSE LET e == body_end(s, sep.end)
                      IN  [ok |-> TRUE, group2 |-> hd.group2,
                           group3 |-> SubSeq(s, sep.end, e - 1), end |-> e]

\* One match attempt at index p: `^` (re.MULTILINE: the start, or after a '\n'),
\* then `\n`.
match_at(s, p) ==
    LET caret   == IF p = 1 \/ s[p - 1] = "\n" THEN section(s, p) ELSE NoMatch
        newline == IF p <= Len(s) /\ s[p] = "\n" THEN section(s, p + 1) ELSE NoMatch
    IN  IF caret.ok THEN caret ELSE newline

\* re.finditer: the matches from index p on, left to right, not overlapping.
RECURSIVE finditer(_, _)
finditer(s, p) ==
    IF p > Len(s) + 1 THEN <<>>
    ELSE LET m == match_at(s, p)
         IN  IF m.ok THEN <<m>> \o finditer(s, m.end) ELSE finditer(s, p + 1)

EmptyDict == [k \in {} |-> <<>>]

\* d[k] = v
Put(d, k, v) == [x \in (DOMAIN d) \cup {k} |-> IF x = k THEN v ELSE d[x]]

\* d.get(k, "")
Get(d, k) == IF k \in DOMAIN d THEN d[k] ELSE <<>>

\* The loop over the matches.
RECURSIVE collect(_, _, _)
collect(matches, i, d) ==
    IF i > Len(matches) THEN d
    ELSE collect(matches, i + 1,
                 Put(d, int(matches[i].group2), strip(matches[i].group3)))

\* parse_readme(): what it returns, or that it raised.  open() and f.read() stand
\* in no try: a README.md that cannot be opened or is not UTF-8 raises.
parse_readme(file) ==
    IF ~file.exists THEN Returned(EmptyDict)
    ELSE IF ~file.readable THEN Raised
    ELSE Returned(collect(finditer(file.content, 1), 1, EmptyDict))


(***************************************************************************)
(* Formatting: f"{n}", f"{n:02d}", and the names built with them.          *)
(***************************************************************************)

\* f"{n}" for n >= 0: the decimal digits.
RECURSIVE DecStr(_)
DecStr(n) ==
    IF n < 10 THEN <<DigitChar[n + 1]>>
    ELSE DecStr(n \div 10) \o <<DigitChar[(n % 10) + 1]>>

\* f"{n:02d}" for n >= 0: at least two digits, zero-padded.
Pad2(n) == IF n < 10 THEN <<"0">> \o DecStr(n) ELSE DecStr(n)

\* f"day {day_num:02d}"
DirName(n) == <<"d", "a", "y", " ">> \o Pad2(n)

DotHtml == <<".", "h", "t", "m", "l">>

\* docs_dir / f"day-{day_num}.html": the file main writes for a day.
day_path(n) == <<"d", "a", "y", "-">> \o DecStr(n) \o DotHtml

\* docs_dir / "index.html"
index_path == <<"i", "n", "d", "e", "x">> \o DotHtml

\* href="day-{n}.html" of a day page's navigation bar.
day_href(n) == <<"d", "a", "y", "-">> \o DecStr(n) \o DotHtml

\* href="index.html" of a day page's navigation bar.
index_href == <<"i", "n", "d", "e", "x">> \o DotHtml

\* href="day-{day_num}.html" of an index card.
card_href(n) == <<"d", "a", "y", "-">> \o DecStr(n) \o DotHtml

(***************************************************************************)
(* get_day_files and get_language.                                         *)
(***************************************************************************)

\* pathlib's Path(name).suffix: from the last '.' of the final component, when that
\* dot is neither its first nor its last character.
suffix(name) ==
    LET slashes == {i \in 1..Len(name) : name[i] = "/"}
        start   == IF slashes = {} THEN 1 ELSE Max(slashes) + 1
        dots    == {i \in start..Len(name) : name[i] = "."}
    IN  IF dots # {} /\ start < Max(dots) /\ Max(dots) < Len(name)
        THEN SubSeq(name, Max(dots), Len(name))
        ELSE <<>>

code_extensions ==
    { <<".", "c", "u">>, <<".", "c", "p", "p">>, <<".", "c">>, <<".", "h">>,
      <<".", "c", "u", "h">>, <<".", "p", "y">>, <<".", "m", "d">> }

\* A byte that is not valid UTF-8.
BadByte == "\\xff"

\* f.read() under encoding='utf-8', errors='ignore': undecodable bytes are dropped.
decode(bytes) == SelectSeq(bytes, LAMBDA b : b # BadByte)

\* A slip: the try encloses the loop, so the first read that fails ends the scan.
RECURSIVE scan_until_error(_, _)
scan_until_error(entries, i) ==
    IF i > Len(entries) THEN <<>>
    ELSE LET e == entries[i]
         IN  IF e.is_file /\ suffix(e.rel_path) \in code_extensions
             THEN IF e.readable
                  THEN <<[filename |-> e.rel_path, content |-> decode(e.bytes)]>>
                           \o scan_until_error(entries, i + 1)
                  ELSE <<>>
             ELSE scan_until_error(entries, i + 1)

\* The loop of get_day_files over the directory's entries from index i on.
\* An entry whose open() or read() raises is caught by the except clause and skipped.
RECURSIVE scan(_, _)
scan(entries, i) ==
    IF i > Len(entries) THEN <<>>
    ELSE LET e == entries[i]
         IN  IF e.is_file /\ suffix(e.rel_path) \in code_extensions
             THEN IF e.readable
                  THEN <<[filename |-> e.rel_path, content |-> decode(e.bytes)]>>
                           \o scan(entries, i + 1)
                  ELSE scan(entries, i + 1)
             ELSE scan(entries, i + 1)

\* get_day_files(day_num) over the directories fs: what it returns, or that it raised.
get_day_files(fs, n) ==
    IF DirName(n) \notin DOMAIN fs
    THEN Returned(<<>>)
    ELSE Returned(scan(fs[DirName(n)], 1))

get_language(filename) ==
    LET ext == suffix(filename)
    IN  CASE ext = <<".", "c", "u">>      -> "cuda"
          [] ext = <<".", "c", "p", "p">> -> "cpp"
          [] ext = <<".", "c">>           -> "c"
          [] ext = <<".", "h">>           -> "c"
          [] ext = <<".", "c", "u", "h">> -> "cuda"
          [] ext = <<".", "p", "y">>      -> "python"
          [] ext = <<".", "m", "d">>      -> "markdown"
          [] OTHER                        -> "clike"

(***************************************************************************)
(* generate_day_page.                                                      *)
(***************************************************************************)

\* str.replace(old, new) for a one-character old.
RECURSIVE replace(_, _, _)
replace(s, old, new) ==
    IF s = <<>> THEN <<>>
    ELSE (IF s[1] = old THEN new ELSE <<s[1]>>) \o replace(Tail(s), old, new)

\* A slip: '<' and '>' replaced before '&', so the '&' of their entities is escaped again.
escape_ampersand_last(content) ==
    replace(replace(replace(content, "<", <<"&", "l", "t", ";">>),
                    ">", <<"&", "g", "t", ";">>),
            "&", <<"&", "a", "m", "p", ";">>)

\* content.replace('&', '&amp;').replace('<', '&lt;').replace('>', '&gt;')
escape(content) ==
    replace(replace(replace(content, "&", <<"&", "a", "m", "p", ";">>),
                    "<", <<"&", "l", "t", ";">>),
            ">", <<"&", "g", "t", ";">>)

NoFiles == <<"<p class=\"no-files\">No code files found for this day.</p>">>

NoDescription == <<"<p>No description available for this day.</p>">>

\* The last day that gets a "next" link.
NavLastDay == 100

\* The <div class="file-section"> of each file, in the order of files.
file_sections(files) ==
    [i \in 1..Len(files) |->
        [h3   |-> files[i].filename,
         lang |-> get_language(files[i].filename),
         code |-> escape(files[i].content)]]

\* files_html: the file sections, or the placeholder paragraph when files is empty.
files_html(files) ==
    IF files # <<>>
    THEN [p |-> <<>>, sections |-> file_sections(files)]
    ELSE [p |-> NoFiles, sections |-> <<>>]

\* A slip: <= for <, which gives the last day a "next" link.
nav_next_inclusive(n) == IF n <= NavLastDay THEN day_href(n + 1) ELSE <<>>

\* The two conditional links of the navigation bar ('' when absent).
nav_prev(n) == IF n > 1 THEN day_href(n - 1) ELSE <<>>

nav_next(n) == IF n < NavLastDay THEN day_href(n + 1) ELSE <<>>

\* A slip: the description is emitted as it is, empty or not.
desc_content_raw(description) == description

\* {description if description else '<p>No description available for this day.</p>'}
desc_content(description) ==
    IF description # <<>> THEN description ELSE NoDescription

generate_day_page(n, description, files) ==
    [title        |-> DecStr(n),
     back         |-> index_href,
     prev         |-> nav_prev(n),
     next         |-> nav_next(n),
     desc_content |-> desc_content(description),
     files_html   |-> files_html(files)]

(***************************************************************************)
(* generate_index_page.                                                    *)
(***************************************************************************)

\* The first index >= i of s that holds a '\n' (Len(s)+1 when none).
RECURSIVE NextNewline(_, _)
NextNewline(s, i) ==
    IF i <= Len(s) /\ s[i] # "\n" THEN NextNewline(s, i + 1) ELSE i

\* s[i-1:].split('\n')
RECURSIVE split_from(_, _)
split_from(s, i) ==
    LET j == NextNewline(s, i)
    IN  IF j > Len(s) THEN <<SubSeq(s, i, Len(s))>>
        ELSE <<SubSeq(s, i, j - 1)>> \o split_from(s, j + 1)

\* desc.split('\n')
split(s) == split_from(s, 1)

\* The length a preview line is cut to.
PreviewLen == 150

Ellipsis == <<".", ".", ".">>

ClickToView == <<"Click to view details">>

\* A slip: the line is cut, and nothing marks the cut.
truncate_unmarked(line) ==
    SubSeq(line, 1, IF Len(line) < PreviewLen THEN Len(line) ELSE PreviewLen)

\* line[:150] + ('...' if len(line) > 150 else '')
truncate(line) ==
    SubSeq(line, 1, IF Len(line) < PreviewLen THEN Len(line) ELSE PreviewLen)
        \o (IF Len(line) > PreviewLen THEN Ellipsis ELSE <<>>)

\* The loop over lines from index i on: the first stripped line that is non-empty and
\* does not start with '#' sets preview and breaks; '' when there is none.
RECURSIVE first_preview(_, _)
first_preview(lines, i) ==
    IF i > Len(lines) THEN <<>>
    ELSE LET line == strip(lines[i])
         IN  IF line # <<>> /\ line[1] # "#" THEN truncate(line)
             ELSE first_preview(lines, i + 1)

\* The preview text of one card.
preview(desc) ==
    LET found == IF desc # <<>> THEN first_preview(split(desc), 1) ELSE <<>>
    IN  IF found # <<>> THEN found ELSE ClickToView

\* The last day that gets a card.
IndexLastDay == 100

\* A slip: range(1, 100), which leaves the last day out.
generate_index_page_short(descriptions) ==
    [cards |-> [n \in 1..(IndexLastDay - 1) |->
                   [day_number |-> DecStr(n),
                    preview    |-> preview(Get(descriptions, n)),
                    href       |-> card_href(n)]]]

\* day_cards: one card per day of range(1, 101), in that order.
generate_index_page(descriptions) ==
    [cards |-> [n \in 1..IndexLastDay |->
                   [day_number |-> DecStr(n),
                    preview    |-> preview(Get(descriptions, n)),
                    href       |-> card_href(n)]]]


(***************************************************************************)
(* main: parse README.md, create docs/, write index.html, then write       *)
(* day-1.html .. day-100.html.  Nothing in main catches an exception: a    *)
(* failing mkdir or write ends the run (pc = "write_failed"), and so does  *)
(* an exception that parse_readme or get_day_files lets through            *)
(* (pc = "read_raised").                                                   *)
(***************************************************************************)

\* docs/ before the run: not there.
NoDocs == [exists |-> FALSE, files |-> EmptyDict]

\* The last day of main's range(1, 101).
LastDay == 100

\* day_descriptions = parse_readme()
Parse ==
    /\ pc = "parse"
    /\ LET parsed == parse_readme(readme)
       IN  IF parsed.raised
           THEN /\ pc' = "read_raised"
                /\ UNCHANGED day_descriptions
           ELSE /\ day_descriptions' = parsed.value
                /\ pc' = "mkdir"
    /\ UNCHANGED <<readme, tree, day_num, docs, written, call, ret>>

\* docs_dir.mkdir(exist_ok=True)
Mkdir ==
    /\ pc = "mkdir"
    /\ docs' = [docs EXCEPT !.exists = TRUE]
    /\ pc' = "index"
    /\ UNCHANGED <<readme, tree, day_descriptions, day_num, written, call, ret>>

\* index_html = generate_index_page(day_descriptions), written to docs/index.html
WriteIndex ==
    /\ pc = "index"
    /\ docs' = [docs EXCEPT !.files = Put(@, index_path, generate_index_page(day_descriptions))]
    /\ written' = Append(written, index_path)
    /\ day_num' = 1
    /\ pc' = "days"
    /\ UNCHANGED <<readme, tree, day_descriptions, call, ret>>

\* One iteration of the loop over range(1, 101).
WriteDay ==
    /\ pc = "days"
    /\ LET description == Get(day_descriptions, day_num)
           files       == get_day_files(tree, day_num)
       IN  IF files.raised
           THEN /\ pc' = "read_raised"
                /\ UNCHANGED <<day_num, docs, written>>
           ELSE /\ docs' = [docs EXCEPT !.files =
                               Put(@, day_path(day_num),
                                   generate_day_page(day_num, description, files.value))]
                /\ written' = Append(written, day_path(day_num))
                /\ day_num' = IF day_num < LastDay THEN day_num + 1 ELSE day_num
                /\ pc' = IF day_num < LastDay THEN "days" ELSE "done"
    /\ UNCHANGED <<readme, tree, day_descriptions, call, ret>>

\* mkdir, or the open() or write() of an output file, raises.
WriteFails ==
    /\ pc \in {"mkdir", "index", "days"}
    /\ pc' = "write_failed"
    /\ UNCHANGED <<readme, tree, day_descriptions, day_num, docs, written, call, ret>>

(***************************************************************************)
(* The inputs of a run.                                                    *)
(***************************************************************************)

\* The concatenation of a sequence of texts.
RECURSIVE Cat(_)
Cat(ts) == IF ts = <<>> THEN <<>> ELSE Head(ts) \o Cat(Tail(ts))

\* A header line's start: k '#', a space, "Day", a space, the number.
Heading(k, n) == Hashes(k) \o <<" ">> \o DayWord \o <<" ">> \o DecStr(n)

File(content) == [exists |-> TRUE, readable |-> TRUE, content |-> content]

NoFile == [exists |-> FALSE, readable |-> FALSE, content |-> <<>>]

\* A file that is there and cannot be read as text (not UTF-8, no permission).
UnreadableFile == [exists |-> TRUE, readable |-> FALSE, content |-> <<>>]

\* README.md of a run: missing, unreadable, empty, or with sections for some days
\* (one of them empty, one holding markup, one outside 1..100).
MainReadmes ==
    { NoFile,
      UnreadableFile,
      File(<<>>),
      File(Cat(<<Heading(2, 2), <<":", " ", "<", "b", ">", "\n">>,
                 Heading(1, 100), <<":", "\n">>>>)),
      File(Cat(<<<<"t", "\n">>, Heading(1, 1), <<"\n", "\n", "#", "h", "\n", " ", "x", " ", "\n">>,
                 Heading(2, 101), <<":", " ", "y">>>>)) }

\* The entries a day directory may hold: two readable code files, a code file whose
\* read fails, a file of another kind, and a subdirectory.
Entries ==
    { [rel_path |-> <<"a", ".", "c", "u">>, is_file |-> TRUE, readable |-> TRUE,
       bytes |-> <<"<", BadByte, "&">>],
      [rel_path |-> <<"s", "/", "k", ".", "h">>, is_file |-> TRUE, readable |-> TRUE,
       bytes |-> <<>>],
      [rel_path |-> <<"b", ".", "p", "y">>, is_file |-> TRUE, readable |-> FALSE,
       bytes |-> <<>>],
      [rel_path |-> <<"n", ".", "t", "x", "t">>, is_file |-> TRUE, readable |-> TRUE,
       bytes |-> <<"x">>] }

\* The most entries of a day directory.
MaxEntries == 3

\* The sequences of at most n elements of S, no element twice (a directory holds a
\* path once).
ListingsUpTo(S, n) ==
    {l \in UNION {[1..k -> S] : k \in 0..n} :
        \A i, j \in DOMAIN l : l[i] = l[j] => i = j}

\* The names a run looks for ("day 01", "day 100") and one it never does ("day 2").
DirNames == {DirName(1), DirName(LastDay), <<"d", "a", "y", " ", "2">>}

\* The directory trees of a run: no day directory, or one.
Trees ==
    {EmptyDict} \cup
    {[d \in {name} |-> entries] : name \in DirNames, entries \in ListingsUpTo(Entries, MaxEntries)}

Init ==
    /\ readme \in MainReadmes
    /\ tree \in Trees
    /\ pc = "parse"
    /\ day_descriptions = EmptyDict
    /\ day_num = 0
    /\ docs = NoDocs
    /\ written = <<>>
    /\ call = None
    /\ ret = None

Next == Parse \/ Mkdir \/ WriteIndex \/ WriteDay \/ WriteFails

Spec == Init /\ [][Next]_vars


(***************************************************************************)
(* The functions called on their own, each on inputs from a bounded set.   *)
(***************************************************************************)

CallParseReadme ==
    /\ pc = "call"
    /\ call.fn = "parse_readme"
    /\ ret' = parse_readme(readme)
    /\ pc' = "returned"
    /\ UNCHANGED <<readme, tree, day_descriptions, day_num, docs, written, call>>

CallGenerateDayPage ==
    /\ pc = "call"
    /\ call.fn = "generate_day_page"
    /\ ret' = generate_day_page(call.day_num, call.description, call.files)
    /\ pc' = "returned"
    /\ UNCHANGED <<readme, tree, day_descriptions, day_num, docs, written, call>>

CallGenerateIndexPage ==
    /\ pc = "call"
    /\ call.fn = "generate_index_page"
    /\ ret' = generate_index_page(call.day_descriptions)
    /\ pc' = "returned"
    /\ UNCHANGED <<readme, tree, day_descriptions, day_num, docs, written, call>>

\* The state around a call: nothing of a run has happened.
Idle ==
    /\ tree = EmptyDict
    /\ day_descriptions = EmptyDict
    /\ day_num = 0
    /\ docs = NoDocs
    /\ written = <<>>
    /\ ret = None

\* The texts made of at most n of the pieces.
RECURSIVE TextsOf(_, _)
TextsOf(pieces, n) ==
    IF n = 0 THEN {<<>>}
    ELSE LET shorter == TextsOf(pieces, n - 1)
         IN  shorter \cup {t \o p : t \in shorter, p \in pieces}

\* What a README is made of: header starts for days 1 and 2, and single characters.
ReadmePieces ==
    { Heading(1, 1), Heading(2, 2), <<":">>, <<"\n">>, <<" ">>, <<"x">>, <<"#">> }

\* The most pieces of a README.
MaxReadmePieces == 5

InitParse ==
    /\ readme \in {NoFile, UnreadableFile}
                     \cup {File(t) : t \in TextsOf(ReadmePieces, MaxReadmePieces)}
    /\ pc = "call"
    /\ call = [fn |-> "parse_readme"]
    /\ Idle

SpecParse == InitParse /\ [][CallParseReadme]_vars

\* What a code file is made of: the three characters escaped, the tails of their
\* entities, and plain characters.
ContentPieces ==
    { <<"&">>, <<"<">>, <<">">>, <<"a", "m", "p", ";">>, <<"l", "t", ";">>,
      <<"g", "t", ";">>, <<"x">>, <<";">> }

\* The most pieces of a code file.
MaxContentPieces == 4

CuFile(content) == [filename |-> <<"k", ".", "c", "u">>, content |-> content]

InitDayPage ==
    /\ readme = NoFile
    /\ pc = "call"
    /\ \E n \in {1, NavLastDay}, d \in {<<>>, <<"<", "b", ">">>},
          c \in TextsOf(ContentPieces, MaxContentPieces) :
          call = [fn |-> "generate_day_page", day_num |-> n, description |-> d,
                  files |-> <<CuFile(c)>>]
    /\ Idle

SpecDayPage == InitDayPage /\ [][CallGenerateDayPage]_vars

\* A run of n 'x'.
Xs(n) == [i \in 1..n |-> "x"]

\* The lines of a description: nothing or some indentation, nothing or a '#', and a
\* run of 'x' around the length a preview is cut to.
DescLines ==
    { pre \o body : pre \in {<<>>, <<" ">>, <<"#">>, <<" ", "#">>},
                    body \in {Xs(0), Xs(1), Xs(PreviewLen) \o <<" ">>, Xs(PreviewLen + 1)} }

\* The most lines of a description.
MaxDescLines == 2

\* The lines joined by '\n'.
RECURSIVE Join(_)
Join(lines) ==
    IF Len(lines) = 0 THEN <<>>
    ELSE IF Len(lines) = 1 THEN lines[1]
    ELSE lines[1] \o <<"\n">> \o Join(Tail(lines))

\* The descriptions parse_readme can return: texts with no whitespace at either end.
Descriptions ==
    {d \in {Join(ls) : ls \in UNION {[1..k -> DescLines] : k \in 0..MaxDescLines}} :
        strip(d) = d}

\* The day numbers a README may hold: inside and outside 1..100.
IndexKeys == {{}, {1}, {IndexLastDay}, {0, IndexLastDay + 1}, {0, 1, 2, IndexLastDay}}

InitIndexPage ==
    /\ readme = NoFile
    /\ pc = "call"
    /\ \E keys \in IndexKeys, d \in Descriptions :
          call = [fn |-> "generate_index_page", day_descriptions |-> [k \in keys |-> d]]
    /\ Idle

SpecIndex == InitIndexPage /\ [][CallGenerateIndexPage]_vars


(***************************************************************************)
(* Properties of parse_readme (under SpecParse).                           *)
(***************************************************************************)

\* The least element of a non-empty set of integers.
Min(S) == CHOOSE k \in S : \A j \in S : k <= j

\* Index h of s is the start of a line.
LineStart(s, h) == h = 1 \/ (h >= 2 /\ s[h - 1] = "\n")

\* The lines of s that start like a day header: one or two '#', whitespace, "Day",
\* whitespace, digits.
DayLines(s) == {h \in 1..Len(s) : LineStart(s, h) /\ header(s, h).ok}

\* The header lines of s: a day line whose digits are followed by a colon or a
\* newline (whitespace allowed before it).
HeaderLines(s) == {h \in DayLines(s) : separator(s, header(s, h).end).ok}

\* The day number of the header line at h.
DayOf(s, h) == int(header(s, h).group2)

HeaderDays(s) == {DayOf(s, h) : h \in HeaderLines(s)}

\* The header lines of day d.
HeadersOf(s, d) == {h \in HeaderLines(s) : DayOf(s, h) = d}

\* The trimmed text of the section whose header line is at h: from right after the
\* header's separator to the next day line, or to the end of s.
SectionText(s, h) ==
    LET b     == separator(s, header(s, h).end).end
        later == {k \in DayLines(s) : k >= b}
        stop  == IF later = {} THEN Len(s) + 1 ELSE Min(later)
    IN  strip(SubSeq(s, b, stop - 1))

\* C1: every description parse_readme returns is the trimmed text of a section of
\* its day: from right after the header's separator to the next day line, or to the
\* end of the document.
C1_SectionBounds ==
    (pc = "returned" /\ ~ret.raised) =>
        \A d \in DOMAIN ret.value :
            \E h \in HeadersOf(readme.content, d) :
                ret.value[d] = SectionText(readme.content, h)

\* C2: the keys parse_readme returns are exactly the day numbers of the document's
\* header lines, whatever the body of a section, an empty one included.
C2_KeysAreHeaderDays ==
    (pc = "returned" /\ ~ret.raised) =>
        DOMAIN ret.value = HeaderDays(readme.content)

\* C3: in a document where some day has more than one header line, every day maps to
\* the trimmed text of its last header line's section.
C3_LastHeaderWins ==
    (/\ pc = "returned"
     /\ ~ret.raised
     /\ \E d \in HeaderDays(readme.content) :
           Cardinality(HeadersOf(readme.content, d)) > 1)
    => \A d \in HeaderDays(readme.content) :
           /\ d \in DOMAIN ret.value
           /\ ret.value[d] = SectionText(readme.content, Max(HeadersOf(readme.content, d)))

(***************************************************************************)
(* Properties of generate_day_page (under SpecDayPage).                    *)
(***************************************************************************)

AmpEntity == <<"&", "a", "m", "p", ";">>

LtEntity == <<"&", "l", "t", ";">>

GtEntity == <<"&", "g", "t", ";">>

\* The three entities decoded, left to right.
RECURSIVE unescape(_)
unescape(t) ==
    IF t = <<>> THEN <<>>
    ELSE IF HasAt(t, 1, AmpEntity)
    THEN <<"&">> \o unescape(SubSeq(t, Len(AmpEntity) + 1, Len(t)))
    ELSE IF HasAt(t, 1, LtEntity)
    THEN <<"<">> \o unescape(SubSeq(t, Len(LtEntity) + 1, Len(t)))
    ELSE IF HasAt(t, 1, GtEntity)
    THEN <<">">> \o unescape(SubSeq(t, Len(GtEntity) + 1, Len(t)))
    ELSE <<t[1]>> \o unescape(Tail(t))

\* C4: the text inside each <code> block holds no '<' and no '>', each '&' in it
\* starts one of &amp; &lt; &gt;, and decoding those three entities gives back the
\* file's content.
C4_EscapeRoundTrip ==
    pc = "returned" =>
        /\ Len(ret.files_html.sections) = Len(call.files)
        /\ \A i \in DOMAIN call.files :
              LET code == ret.files_html.sections[i].code
              IN  /\ \A j \in DOMAIN code :
                        /\ code[j] \notin {"<", ">"}
                        /\ code[j] = "&" =>
                              \/ HasAt(code, j, AmpEntity)
                              \/ HasAt(code, j, LtEntity)
                              \/ HasAt(code, j, GtEntity)
                  /\ unescape(code) = call.files[i].content

\* A file that holds the text of an entity beside the characters themselves has been
\* rendered.
C4_Witness ==
    /\ pc = "returned"
    /\ call.files[1].content = <<"&", "l", "t", ";", "<", "&">>
    /\ ret.files_html.sections[1].code =
           AmpEntity \o <<"l", "t", ";">> \o LtEntity \o AmpEntity


(***************************************************************************)
(* Properties of generate_index_page (under SpecIndex).                    *)
(***************************************************************************)

\* C5: the index holds exactly 100 cards, the i-th for day i and linking to
\* day-<i>.html, whatever keys the mapping holds.
C5_HundredCards ==
    pc = "returned" =>
        /\ Len(ret.cards) = 100
        /\ \A i \in 1..100 :
              /\ ret.cards[i].day_number = DecStr(i)
              /\ int(ret.cards[i].day_number) = i
              /\ ret.cards[i].href =
                     <<"d", "a", "y", "-">> \o ret.cards[i].day_number
                         \o <<".", "h", "t", "m", "l">>

\* The index of a mapping whose only keys lie outside 1..100 has been rendered.
C5_Witness ==
    /\ pc = "returned"
    /\ DOMAIN call.day_descriptions = {0, 101}
    /\ Len(ret.cards) = 100

\* The lines of a text: what lies between its newlines.
LinesOf(t) ==
    LET breaks == <<0>> \o SelectSeq([i \in 1..Len(t) |-> IF t[i] = "\n" THEN i ELSE 0],
                                     LAMBDA i : i > 0) \o <<Len(t) + 1>>
    IN  [k \in 1..(Len(breaks) - 1) |-> SubSeq(t, breaks[k] + 1, breaks[k + 1] - 1)]

\* A line cut to 150 characters, "..." appended when it was longer.
Cut(line) ==
    IF Len(line) > 150 THEN SubSeq(line, 1, 150) \o <<".", ".", ".">> ELSE line

\* The preview of a description whose lines are taken as they stand.
PreviewOfRawLines(desc) ==
    LET lines == LinesOf(desc)
        good  == {i \in DOMAIN lines : lines[i] # <<>> /\ lines[i][1] # "#"}
    IN  IF desc = <<>> \/ good = {} THEN <<"Click to view details">>
        ELSE Cut(lines[Min(good)])

\* The preview of a description whose lines are trimmed first.
PreviewOfTrimmedLines(desc) ==
    LET lines == LinesOf(desc)
        good  == {i \in DOMAIN lines : strip(lines[i]) # <<>> /\ strip(lines[i])[1] # "#"}
    IN  IF desc = <<>> \/ good = {} THEN <<"Click to view details">>
        ELSE Cut(strip(lines[Min(good)]))

\* C8 as stated: each card's preview is the first line of the day's description that
\* is non-empty and does not begin with '#', cut to 150 characters with "..." when
\* longer; "Click to view details" when there is no description or no such line.
C8_PreviewOfFirstLine ==
    pc = "returned" =>
        \A n \in 1..100 :
            ret.cards[n].preview = PreviewOfRawLines(Get(call.day_descriptions, n))

\* C8 as amended: each card's preview is the first line of the day's description
\* that, once trimmed, is non-empty and does not begin with '#': that trimmed line,
\* cut to 150 characters with "..." when the trimmed line is longer; "Click to view
\* details" when there is no description or no such line.
C8_PreviewOfTrimmedLine ==
    pc = "returned" =>
        \A n \in 1..100 :
            ret.cards[n].preview = PreviewOfTrimmedLines(Get(call.day_descriptions, n))

\* A description whose first line is a '#' line and whose second, indented, line is
\* longer than 150 characters has been previewed, cut and marked.
C8_Witness ==
    /\ pc = "returned"
    /\ 1 \in DOMAIN call.day_descriptions
    /\ call.day_descriptions[1] = <<"#", "\n", " ">> \o Xs(151)
    /\ ret.cards[1].preview = Xs(150) \o <<".", ".", ".">>
    /\ ret.cards[2].preview = <<"Click to view details">>


(***************************************************************************)
(* Properties of a run of main (under Spec).                  *)
(***************************************************************************)

\* "day-<n>.html"
DayPageName(n) == <<"d", "a", "y", "-">> \o DecStr(n) \o <<".", "h", "t", "m", "l">>

IndexPageName == <<"i", "n", "d", "e", "x", ".", "h", "t", "m", "l">>

\* The files written so far.
Written == {written[i] : i \in DOMAIN written}

\* The page written for day n.
PageOf(n) == docs.files[DayPageName(n)]

\* C6: once the run is done, the page of day N has a "previous" link, to
\* day-(N-1).html, exactly when N > 1, and a "next" link, to day-(N+1).html, exactly
\* when N < 100; every link of its navigation bar points to a file the run wrote.
C6_NavLinks ==
    pc = "done" =>
        \A n \in 1..100 :
            /\ DayPageName(n) \in DOMAIN docs.files
            /\ PageOf(n).prev # <<>> <=> n > 1
            /\ n > 1 => PageOf(n).prev = DayPageName(n - 1)
            /\ PageOf(n).next # <<>> <=> n < 100
            /\ n < 100 => PageOf(n).next = DayPageName(n + 1)
            /\ PageOf(n).back = IndexPageName
            /\ \A link \in {PageOf(n).back, PageOf(n).prev, PageOf(n).next} \ {<<>>} :
                  link \in Written

\* A run is done: day 1 has no "previous" link, day 100 no "next" link, day 2 both.
C6_Witness ==
    /\ pc = "done"
    /\ PageOf(1).prev = <<>> /\ PageOf(1).next = DayPageName(2)
    /\ PageOf(100).next = <<>> /\ PageOf(100).prev = DayPageName(99)
    /\ PageOf(2).prev = DayPageName(1) /\ PageOf(2).next = DayPageName(3)

\* C7: once the run is done, the page of day n shows "No description available for
\* this day." exactly when n has no description or one that is empty once trimmed,
\* and the description as it is otherwise; it shows "No code files found for this
\* day." exactly when the day's file list is empty, and one block per file in the
\* list's order otherwise; neither part is empty.
C7_Placeholders ==
    pc = "done" =>
        \A n \in 1..100 :
            LET page    == PageOf(n)
                missing == n \notin DOMAIN day_descriptions
                              \/ strip(day_descriptions[n]) = <<>>
                files   == get_day_files(tree, n).value
            IN  /\ page.desc_content = NoDescription <=> missing
                /\ ~missing => page.desc_content = day_descriptions[n]
                /\ page.files_html.p = NoFiles <=> files = <<>>
                /\ files # <<>> => page.files_html.p = <<>>
                /\ Len(page.files_html.sections) = Len(files)
                /\ \A i \in DOMAIN files :
                      page.files_html.sections[i].h3 = files[i].filename
                /\ page.desc_content # <<>>
                /\ page.files_html.p # <<>> \/ page.files_html.sections # <<>>

\* A run is done in which day 100 has an empty description, day 2 one with markup,
\* day 1 none, and some day has code files.
C7_Witness ==
    /\ pc = "done"
    /\ 100 \in DOMAIN day_descriptions /\ day_descriptions[100] = <<>>
    /\ PageOf(100).desc_content = NoDescription
    /\ PageOf(2).desc_content = <<"<", "b", ">">>
    /\ 1 \notin DOMAIN day_descriptions
    /\ PageOf(100).files_html.sections # <<>>
    /\ PageOf(1).files_html.p = NoFiles

\* How far the run has come.
Progress ==
    CASE pc = "parse" -> 0
      [] pc = "mkdir" -> 1
      [] pc = "index" -> 2
      [] pc = "days"  -> 2 + day_num
      [] OTHER        -> 103

\* C9: whatever README.md and the day directories are, every step of the run brings
\* it nearer to its end (at most 103 steps), only a failing mkdir or write ends it
\* short of done, no file is ever written twice, and a run that is done has written
\* exactly index.html and day-1.html .. day-100.html, with placeholder text where
\* README.md or a day directory is missing.
C9_RunWritesAllPages ==
    /\ [][Progress' > Progress]_vars
    /\ [](pc # "read_raised")
    /\ [](Cardinality(Written) = Len(written))
    /\ [](pc = "done" =>
            /\ Len(written) = 101
            /\ Written = {IndexPageName} \cup {DayPageName(n) : n \in 1..100}
            /\ DOMAIN docs.files = Written
            /\ ~readme.exists =>
                  \A n \in 1..100 : PageOf(n).desc_content = NoDescription
            /\ \A n \in 1..100 :
                  DirName(n) \notin DOMAIN tree => PageOf(n).files_html.p = NoFiles)

\* An entry that get_day_files reads: a regular file with a code extension.
Recognized(e) == e.is_file /\ suffix(e.rel_path) \in code_extensions

\* The files of day n that can be read, in scan order.
ReadableFiles(n) ==
    IF DirName(n) \notin DOMAIN tree THEN <<>>
    ELSE LET kept == SelectSeq(tree[DirName(n)], LAMBDA e : Recognized(e) /\ e.readable)
         IN  [i \in DOMAIN kept |->
                 [filename |-> kept[i].rel_path, content |-> decode(kept[i].bytes)]]

\* C10: get_day_files never raises and returns exactly the recognized files whose
\* read succeeds, in scan order, each with its content; and in a run that is done the
\* page of every day holds one block for each of them.
C10_ReadFailureSkipsOneFile ==
    /\ pc \in {"parse", "done"} =>
          \A n \in 1..100 :
              get_day_files(tree, n) = [raised |-> FALSE, value |-> ReadableFiles(n)]
    /\ pc = "done" =>
          \A n \in 1..100 :
              /\ DayPageName(n) \in Written
              /\ Len(PageOf(n).files_html.sections) = Len(ReadableFiles(n))
              /\ \A i \in DOMAIN ReadableFiles(n) :
                    /\ PageOf(n).files_html.sections[i].h3 = ReadableFiles(n)[i].filename
                    /\ unescape(PageOf(n).files_html.sections[i].code)
                           = ReadableFiles(n)[i].content

\* A run is done whose directory of day 1 holds a file that cannot be read between
\* two that can: the page of day 1 holds the two.
C10_Witness ==
    /\ pc = "done"
    /\ DirName(1) \in DOMAIN tree
    /\ Len(tree[DirName(1)]) = 3
    /\ Recognized(tree[DirName(1)][2]) /\ ~tree[DirName(1)][2].readable
    /\ Len(PageOf(1).files_html.sections) = 2
    /\ PageOf(1).files_html.sections[1].h3 = tree[DirName(1)][1].rel_path
    /\ PageOf(1).files_html.sections[2].h3 = tree[DirName(1)][3].rel_path
    /\ DayPageName(100) \in Written


====
